---- MODULE Spec2Model ----
(***************************************************************************)
(* Range Filter Tree (src/src/range_filter_tree.h): the filter-sorted      *)
(* layout, the pyramid of bucket sizes, the two boundary searches and the  *)
(* three query strategies behind batch_search.                             *)
(*                                                                         *)
(* Sorted positions, levels and bucket indices are 0-based as in the       *)
(* source.  Filter values are small integers; query endpoints range over   *)
(* one value below and one above them, so that an endpoint can fall        *)
(* before, on, between and after the stored values.                        *)
(*                                                                         *)
(* The index is immutable once built, so a behaviour follows the level     *)
(* loop of the constructor and then one public call on the built index.    *)
(* The level loop of fenwick_tree_search is also followed one iteration at *)
(* a time (SpecPlan), on larger indexes and for every window of positions. *)
(***************************************************************************)
EXTENDS Integers, Sequences, FiniteSets

\* ------------------------------------------------------------------ bounds
MaxN == 3
MaxCutoff == 4
MaxFilter == 3
MaxK == 2
MaxDist == 1
MaxRatio == 1
\* the largest index on which the level loop of fenwick_tree is followed
\* step by step
PlanMaxN == 8

FilterVals == 1..MaxFilter
QueryVals == 0..(MaxFilter + 1)
Dists == 0..MaxDist
\* an optional min_query_to_bucket_ratio: <<>> is nullopt
Ratios == {<<>>} \cup {<<r>> : r \in 1..MaxRatio}
Methods == {"fenwick_tree", "optimized_postfilter", "three_split"}

\* std::numeric_limits<float>::max(): finite, above every distance of the model
FloatMax == MaxDist + 1
\* +infinity of the float type: above FloatMax
Infinity == FloatMax + 1

VARIABLES
  n,                                  \* _points->size()
  cutoff,                             \* _cutoff
  filter_values,                      \* _filter_values, [0..n-1 -> FilterVals]
  sorted_index_to_original_point_id,  \* decoding, [0..n-1 -> 0..n-1]
  bucket_sizes,                       \* _bucket_sizes, level j is bucket_sizes[j+1]
  starts,                             \* _starts, bucket b of level j starts at starts[j+1][b+1]
  current_filter_size,                \* the constructor's loop variable
  call                                \* the public call made on the index and what it returned

vars == <<n, cutoff, filter_values, sorted_index_to_original_point_id,
          bucket_sizes, starts, current_filter_size, call>>

Min(a, b) == IF a < b THEN a ELSE b

\* ------------------------------------------------------------ construction
IndexPermutations(m) ==
  {p \in [0..(m - 1) -> 0..(m - 1)] : \A i, j \in 0..(m - 1) : i # j => p[i] # p[j]}

\* parlay::sort_inplace with the comparator raw[i] < raw[j]: any order of the
\* indices in which no later value is smaller than an earlier one (the sort
\* is not stable, so equal values may come out in either order).
SortedIndices(raw, m) ==
  {p \in IndexPermutations(m) : \A i, j \in 0..(m - 1) : i < j => ~(raw[p[j]] < raw[p[i]])}

\* The public constructor up to the entry of the private constructor's loop.
Init ==
  /\ n \in 1..MaxN
  /\ cutoff \in 1..MaxCutoff
  /\ \E raw \in [0..(n - 1) -> FilterVals] :
       \E filter_indices_sorted \in SortedIndices(raw, n) :
         /\ filter_values = [i \in 0..(n - 1) |-> raw[filter_indices_sorted[i]]]
         /\ sorted_index_to_original_point_id = filter_indices_sorted
  /\ bucket_sizes = <<>>
  /\ starts = <<>>
  /\ current_filter_size = cutoff
  /\ call = [op |-> "none"]

\* a faulty loop test that also builds a level of width 2n (sensitivity of C6)
LoopConditionInclusive == current_filter_size <= 2 * n

\* while (current_filter_size < 2 * n)
LoopCondition == current_filter_size < 2 * n

Built == ~LoopCondition

\* One iteration of the constructor's loop: a level of ceil(n / size) buckets.
BuildLevel ==
  /\ LoopCondition
  /\ LET num_buckets == (n + current_filter_size - 1) \div current_filter_size
     IN /\ bucket_sizes' = Append(bucket_sizes, current_filter_size)
        /\ starts' = Append(starts,
                            [b1 \in 1..num_buckets |-> (b1 - 1) * current_filter_size])
  /\ current_filter_size' = current_filter_size * 2
  /\ UNCHANGED <<n, cutoff, filter_values, sorted_index_to_original_point_id, call>>

NumLevels == Len(bucket_sizes)
BucketSize(j) == bucket_sizes[j + 1]
NumBuckets(j) == Len(starts[j + 1])
\* the sorted positions of the SubIndex built for bucket b of level j
BucketStart(j, b) == starts[j + 1][b + 1]
BucketEnd(j, b) == BucketStart(j, b) + Min(BucketSize(j), n - BucketStart(j, b))
BucketPositions(j, b) == {i \in 0..(n - 1) : BucketStart(j, b) <= i /\ i < BucketEnd(j, b)}

\* --------------------------------------------------------- range resolver
RECURSIVE GreaterThanLoop(_, _, _)
GreaterThanLoop(filter_value, start, end) ==
  IF start + 1 < end
  THEN LET mid == (start + end) \div 2
       IN IF filter_values[mid] > filter_value
          THEN GreaterThanLoop(filter_value, start, mid)
          ELSE GreaterThanLoop(filter_value, mid, end)
  ELSE end

first_greater_than(filter_value) == GreaterThanLoop(filter_value, 0, n)

RECURSIVE GreaterThanOrEqualToLoop(_, _, _)
GreaterThanOrEqualToLoop(filter_value, start, end) ==
  IF start + 1 < end
  THEN LET mid == (start + end) \div 2
       IN IF filter_values[mid] >= filter_value
          THEN GreaterThanOrEqualToLoop(filter_value, start, mid)
          ELSE GreaterThanOrEqualToLoop(filter_value, mid, end)
  ELSE end

first_greater_than_or_equal_to(filter_value) ==
  GreaterThanOrEqualToLoop(filter_value, 0, n)

check_empty(lo, hi) == hi < filter_values[0] \/ lo > filter_values[n - 1]

FirstGreaterThan ==
  /\ Built
  /\ call.op = "none"
  /\ \E x \in QueryVals :
       call' = [op |-> "first_greater_than", x |-> x, ret |-> first_greater_than(x)]
  /\ UNCHANGED <<n, cutoff, filter_values, sorted_index_to_original_point_id,
                 bucket_sizes, starts, current_filter_size>>

FirstGreaterThanOrEqualTo ==
  /\ Built
  /\ call.op = "none"
  /\ \E x \in QueryVals :
       call' = [op |-> "first_greater_than_or_equal_to", x |-> x,
                ret |-> first_greater_than_or_equal_to(x)]
  /\ UNCHANGED <<n, cutoff, filter_values, sorted_index_to_original_point_id,
                 bucket_sizes, starts, current_filter_size>>

\* ---------------------------------------------------------------- SubIndex
\* A pid is <<sorted position, distance>>; d maps a position to its distance
\* from the query point.
RECURSIVE NearestFirst(_, _)
NearestFirst(S, d) ==
  IF S = {} THEN <<>>
  ELSE LET i == CHOOSE x \in S :
                  \A y \in S : d[x] < d[y] \/ (d[x] = d[y] /\ x <= y)
       IN <<(<<i, d[i]>>)>> \o NearestFirst(S \ {i}, d)

\* The points of bucket (j, b) a SubIndex may hand back for the inclusive
\* filter range [lo, hi].
InRangeOfBucket(j, b, lo, hi) ==
  {i \in BucketPositions(j, b) : lo <= filter_values[i] /\ filter_values[i] <= hi}

\* _spatial_indices.at(j).at(b)->query(query, range, qp): an approximate
\* index, so any at most k of the bucket's in-range points.
SubIndexQuery(j, b, lo, hi, k, d) ==
  {NearestFirst(S, d) :
     S \in {T \in SUBSET InRangeOfBucket(j, b, lo, hi) : Cardinality(T) <= k}}

\* ------------------------------------------------------------ merge helpers
RemoveAt(s, i) == SubSeq(s, 1, i - 1) \o SubSeq(s, i + 1, Len(s))

\* parlay::sort_inplace(frontier, a.second < b.second): every arrangement of
\* the frontier with non-decreasing distances (pairs of equal distance in any
\* order, the sort not being stable).
RECURSIVE SortByDistance(_)
SortByDistance(frontier) ==
  IF frontier = <<>> THEN {<<>>}
  ELSE LET least == {i \in 1..Len(frontier) :
                       \A j \in 1..Len(frontier) : ~(frontier[j][2] < frontier[i][2])}
       IN UNION {{<<frontier[i]>> \o rest : rest \in SortByDistance(RemoveAt(frontier, i))} :
                 i \in least}

\* frontier.pop_tail(frontier.size() - knn) when frontier.size() > knn
PopTail(frontier, knn) == SubSeq(frontier, 1, Min(Len(frontier), knn))

RECURSIVE Flatten(_)
Flatten(seqs) == IF seqs = <<>> THEN <<>> ELSE Head(seqs) \o Flatten(Tail(seqs))

\* for (size_t i = from; i < to; i++) frontier.push_back({i, distance})
BruteForce(from, to, d) ==
  IF from < to THEN [x \in 1..(to - from) |-> <<from + x - 1, d[from + x - 1]>>] ELSE <<>>

\* ------------------------------------------------------------ fenwick_tree
\* The seeding loop over possible_bucket_index: every bucket of the level
\* that fits is pushed (the loop has no break) and last_range is overwritten.
RECURSIVE SeedLoop(_, _, _, _, _, _, _)
SeedLoop(j, possible_bucket_index, max_exclusive, inclusive_start, exclusive_end, indices_to_search, last_range) ==
  IF possible_bucket_index < max_exclusive
  THEN LET current_bucket_size == BucketSize(j)
           bucket_start == possible_bucket_index * current_bucket_size
           bucket_end == bucket_start + current_bucket_size
       IN IF bucket_start >= inclusive_start /\ bucket_end <= exclusive_end
          THEN SeedLoop(j, possible_bucket_index + 1, max_exclusive,
                        inclusive_start, exclusive_end,
                        Append(indices_to_search,
                               <<j, bucket_start \div current_bucket_size>>),
                        <<bucket_start, bucket_start + current_bucket_size>>)
          ELSE SeedLoop(j, possible_bucket_index + 1, max_exclusive,
                        inclusive_start, exclusive_end, indices_to_search, last_range)
  ELSE [indices_to_search |-> indices_to_search, last_range |-> last_range]

\* a test that leaves up to two bucket widths on a side (sensitivity of C11)
ExtendsSideLoose(space, current_bucket_size) == space > 2 * current_bucket_size

\* left_space > current_bucket_size, right_space > current_bucket_size: the
\* test that adds one more bucket of the level on a side.
ExtendsSide(space, current_bucket_size) == space > current_bucket_size

\* One iteration of the loop over bucket_size_index: seeding while
\* last_range is {0, 0}, then at most one more bucket on each side.
FenwickLevelBody(j, inclusive_start, exclusive_end, indices_to_search, last_range) ==
  LET current_bucket_size == BucketSize(j)
      seeded == IF last_range = <<0, 0>>
                THEN SeedLoop(j, inclusive_start \div current_bucket_size,
                              exclusive_end \div current_bucket_size,
                              inclusive_start, exclusive_end,
                              indices_to_search, last_range)
                ELSE [indices_to_search |-> indices_to_search,
                      last_range |-> last_range]
  IN IF seeded.last_range = <<0, 0>>
     THEN seeded
     ELSE LET left_space == seeded.last_range[1] - inclusive_start
              right_space == exclusive_end - seeded.last_range[2]
              first1 == IF ExtendsSide(left_space, current_bucket_size)
                        THEN seeded.last_range[1] - current_bucket_size
                        ELSE seeded.last_range[1]
              its1 == IF ExtendsSide(left_space, current_bucket_size)
                      THEN Append(seeded.indices_to_search,
                                  <<j, first1 \div current_bucket_size>>)
                      ELSE seeded.indices_to_search
              its2 == IF ExtendsSide(right_space, current_bucket_size)
                      THEN Append(its1, <<j, seeded.last_range[2] \div current_bucket_size>>)
                      ELSE its1
              second2 == IF ExtendsSide(right_space, current_bucket_size)
                         THEN seeded.last_range[2] + current_bucket_size
                         ELSE seeded.last_range[2]
          IN [indices_to_search |-> its2, last_range |-> <<first1, second2>>]

\* The loop over bucket_size_index from the largest level down to 0.
RECURSIVE FenwickLevels(_, _, _, _, _)
FenwickLevels(j, inclusive_start, exclusive_end, indices_to_search, last_range) ==
  IF j < 0
  THEN [indices_to_search |-> indices_to_search, last_range |-> last_range]
  ELSE FenwickLevels(j - 1, inclusive_start, exclusive_end,
                     FenwickLevelBody(j, inclusive_start, exclusive_end,
                                      indices_to_search, last_range).indices_to_search,
                     FenwickLevelBody(j, inclusive_start, exclusive_end,
                                      indices_to_search, last_range).last_range)

FenwickPlan(inclusive_start, exclusive_end) ==
  FenwickLevels(NumLevels - 1, inclusive_start, exclusive_end, <<>>, <<0, 0>>)

\* One SubIndex answer per entry of indices_to_search.
RECURSIVE PlanAnswers(_, _, _, _, _)
PlanAnswers(indices_to_search, lo, hi, k, d) ==
  IF indices_to_search = <<>> THEN {<<>>}
  ELSE {<<a>> \o rest :
          a \in SubIndexQuery(Head(indices_to_search)[1], Head(indices_to_search)[2],
                              lo, hi, k, d),
          rest \in PlanAnswers(Tail(indices_to_search), lo, hi, k, d)}

\* The positions brute-forced after the SubIndex answers.
FenwickResidue(inclusive_start, exclusive_end, last_range, d) ==
  IF last_range = <<0, 0>>
  THEN BruteForce(inclusive_start, exclusive_end, d)
  ELSE BruteForce(inclusive_start, last_range[1], d)
       \o BruteForce(last_range[2], exclusive_end, d)

\* fenwick_tree_search: the set of results the call can return.
fenwick_tree_search(lo, hi, k, d) ==
  IF check_empty(lo, hi)
  THEN {[strategy |-> "fenwick_tree", empty |-> TRUE, error |-> FALSE,
         queried |-> <<>>, result |-> <<>>]}
  ELSE LET inclusive_start == first_greater_than(lo)
           exclusive_end == first_greater_than_or_equal_to(hi)
           plan == FenwickPlan(inclusive_start, exclusive_end)
           residue == FenwickResidue(inclusive_start, exclusive_end, plan.last_range, d)
       IN UNION {
            {[strategy |-> "fenwick_tree", empty |-> FALSE, error |-> FALSE,
              inclusive_start |-> inclusive_start, exclusive_end |-> exclusive_end,
              indices_to_search |-> plan.indices_to_search,
              last_range |-> plan.last_range,
              answers |-> answers, residue |-> residue,
              queried |-> plan.indices_to_search,
              result |-> PopTail(sorted, k)] :
               sorted \in SortByDistance(Flatten(answers) \o residue)} :
            answers \in PlanAnswers(plan.indices_to_search, lo, hi, k, d)}

\* ---------------------------------------------------- optimized_postfilter
\* 4 * (exclusive_end - inclusive_start) < _cutoff, computed in size_t: with
\* the end below the start the difference wraps to just under 2^64, four
\* times it is still above every int32 cutoff, and the test is false.
SmallWindow(inclusive_start, exclusive_end) ==
  exclusive_end >= inclusive_start /\ 4 * (exclusive_end - inclusive_start) < cutoff

\* The loop over bucket_id from level 0 up, leaving index_key as the pair's
\* value-initialised {0, 0} when no level has the window in one bucket.
RECURSIVE ContainingLevel(_, _, _)
ContainingLevel(bucket_id, inclusive_start, exclusive_end) ==
  IF bucket_id < NumLevels
  THEN LET bucket_size == BucketSize(bucket_id)
           start_bucket == inclusive_start \div bucket_size
           end_bucket == (exclusive_end - 1) \div bucket_size
       IN IF start_bucket = end_bucket
          THEN [found |-> TRUE, index_key |-> <<bucket_id, start_bucket>>]
          ELSE ContainingLevel(bucket_id + 1, inclusive_start, exclusive_end)
  ELSE [found |-> FALSE, index_key |-> <<0, 0>>]

\* has_value() && (float)bucket_size / (exclusive_end - inclusive_start) > ratio;
\* a wrapped difference makes the quotient about 0, below every ratio >= 1.
RatioExceeded(bucket_size, inclusive_start, exclusive_end, ratio) ==
  /\ ratio # <<>>
  /\ exclusive_end > inclusive_start
  /\ bucket_size > ratio[1] * (exclusive_end - inclusive_start)

OptimizedOutcome(inclusive_start, exclusive_end, small, key, ratio_fallback, error, fenwick, queried, result) ==
  [strategy |-> "optimized_postfilter", empty |-> FALSE, error |-> error,
   inclusive_start |-> inclusive_start, exclusive_end |-> exclusive_end,
   small |-> small, found |-> key.found, index_key |-> key.index_key,
   ratio_fallback |-> ratio_fallback, fenwick |-> fenwick,
   queried |-> queried, result |-> result]

\* optimized_postfiltering_search: the set of results the call can return.
\* With no level at all, _bucket_sizes[0] reads past an empty vector: the
\* value read is arbitrary, so the ratio test can go either way, and
\* _spatial_indices.at(0) throws.
optimized_postfiltering_search(lo, hi, k, ratio, d) ==
  IF check_empty(lo, hi)
  THEN {[strategy |-> "optimized_postfilter", empty |-> TRUE, error |-> FALSE,
         queried |-> <<>>, result |-> <<>>]}
  ELSE LET inclusive_start == first_greater_than(lo)
           exclusive_end == first_greater_than_or_equal_to(hi)
           none == [found |-> FALSE, index_key |-> <<0, 0>>]
           key == ContainingLevel(0, inclusive_start, exclusive_end)
           FallBack(small, k0) ==
             {OptimizedOutcome(inclusive_start, exclusive_end, small, k0, ~small,
                               FALSE, <<f>>, f.queried, f.result) :
                f \in fenwick_tree_search(lo, hi, k, d)}
           Thrown ==
             {OptimizedOutcome(inclusive_start, exclusive_end, FALSE, key, FALSE,
                               TRUE, <<>>, <<>>, <<>>)}
       IN IF SmallWindow(inclusive_start, exclusive_end)
          THEN FallBack(TRUE, none)
          ELSE IF NumLevels = 0
          THEN Thrown \cup (IF ratio # <<>> THEN FallBack(FALSE, key) ELSE {})
          ELSE IF RatioExceeded(BucketSize(key.index_key[1]), inclusive_start,
                                exclusive_end, ratio)
          THEN FallBack(FALSE, key)
          ELSE IF key.index_key[2] >= NumBuckets(key.index_key[1])
          THEN Thrown
          ELSE {OptimizedOutcome(inclusive_start, exclusive_end, FALSE, key, FALSE,
                                 FALSE, <<>>, <<key.index_key>>, r) :
                  r \in SubIndexQuery(key.index_key[1], key.index_key[2], lo, hi, k, d)}

\* -------------------------------------------------------------- three_split
\* index_to_search as a sequence: <<>> is nullopt.
RECURSIVE CenterBucketLoop(_, _, _, _, _)
CenterBucketLoop(j, possible_bucket_index, max_exclusive, inclusive_start, exclusive_end) ==
  IF possible_bucket_index < max_exclusive
  THEN LET current_bucket_size == BucketSize(j)
           bucket_start == possible_bucket_index * current_bucket_size
           bucket_end == Min(bucket_start + current_bucket_size, n)
       IN IF bucket_start >= inclusive_start /\ bucket_end <= exclusive_end
          THEN <<(<<j, possible_bucket_index>>)>>
          ELSE CenterBucketLoop(j, possible_bucket_index + 1, max_exclusive,
                                inclusive_start, exclusive_end)
  ELSE <<>>

RECURSIVE CenterLevels(_, _, _)
CenterLevels(j, inclusive_start, exclusive_end) ==
  IF j < 0 THEN <<>>
  ELSE LET current_bucket_size == BucketSize(j)
           index_to_search ==
             CenterBucketLoop(j, inclusive_start \div current_bucket_size,
                              exclusive_end \div current_bucket_size,
                              inclusive_start, exclusive_end)
       IN IF index_to_search # <<>> THEN index_to_search
          ELSE CenterLevels(j - 1, inclusive_start, exclusive_end)

\* three_split_search: the set of results the call can return.
three_split_search(lo, hi, k, ratio, d) ==
  LET inclusive_start == first_greater_than(lo)
      exclusive_end == first_greater_than_or_equal_to(hi)
      index_to_search == CenterLevels(NumLevels - 1, inclusive_start, exclusive_end)
  IN IF index_to_search = <<>>
     THEN {[strategy |-> "three_split", error |-> FALSE,
            inclusive_start |-> inclusive_start, exclusive_end |-> exclusive_end,
            index_to_search |-> index_to_search, fenwick |-> <<f>>,
            queried |-> f.queried, result |-> f.result] :
             f \in fenwick_tree_search(lo, hi, k, d)}
     ELSE LET bucket_size_index == index_to_search[1][1]
              bucket_index == index_to_search[1][2]
              middle_start == bucket_index * BucketSize(bucket_size_index)
              middle_end == Min(middle_start + BucketSize(bucket_size_index), n)
              left_space == middle_start - inclusive_start
              right_space == exclusive_end - middle_end
              Lefts == IF left_space > 0
                       THEN {<<o>> : o \in optimized_postfiltering_search(
                                              lo, filter_values[middle_start], k, ratio, d)}
                       ELSE {<<>>}
              Rights(left) ==
                IF right_space > 0 /\ ~(left # <<>> /\ left[1].error)
                THEN {<<o>> : o \in optimized_postfiltering_search(
                                       filter_values[middle_end], hi, k, ratio, d)}
                ELSE {<<>>}
              Queried(part) == IF part = <<>> THEN <<>> ELSE part[1].queried
              Result(part) == IF part = <<>> THEN <<>> ELSE part[1].result
              Error(part) == part # <<>> /\ part[1].error
              Outcome(center, left, right, result) ==
                [strategy |-> "three_split", error |-> Error(left) \/ Error(right),
                 inclusive_start |-> inclusive_start, exclusive_end |-> exclusive_end,
                 index_to_search |-> index_to_search, fenwick |-> <<>>,
                 center |-> center, middle_start |-> middle_start,
                 middle_end |-> middle_end, left_space |-> left_space,
                 right_space |-> right_space, left |-> left, right |-> right,
                 queried |-> <<index_to_search[1]>> \o Queried(left) \o Queried(right),
                 result |-> result]
          IN UNION {UNION {UNION {
               IF Error(left) \/ Error(right)
               THEN {Outcome(center, left, right, <<>>)}
               ELSE {Outcome(center, left, right, PopTail(sorted, k)) :
                       sorted \in SortByDistance(center \o Result(left) \o Result(right))} :
               right \in Rights(left)} :
               left \in Lefts} :
               center \in SubIndexQuery(bucket_size_index, bucket_index, lo, hi, k, d)}

\* -------------------------------------------------------------- batch_search
\* The dispatch on query_method: any other name runs fenwick_tree_search.
StrategyResults(query_method, lo, hi, k, ratio, d) ==
  IF query_method = "optimized_postfilter"
  THEN optimized_postfiltering_search(lo, hi, k, ratio, d)
  ELSE IF query_method = "three_split"
  THEN three_split_search(lo, hi, k, ratio, d)
  ELSE fenwick_tree_search(lo, hi, k, d)

\* a faulty row that keeps the sorted ids untranslated (sensitivity of C7)
RowIdsUndecoded(results, knn) ==
  [j1 \in 1..knn |-> IF j1 <= Len(results) THEN results[j1][1] ELSE 0]

\* The row of ids written for one query: slot j of the code is slot j + 1.
RowIds(results, knn) ==
  [j1 \in 1..knn |-> IF j1 <= Len(results)
                     THEN sorted_index_to_original_point_id[results[j1][1]]
                     ELSE 0]

RowDists(results, knn) ==
  [j1 \in 1..knn |-> IF j1 <= Len(results) THEN results[j1][2] ELSE FloatMax]

\* batch_search for one query row (filters[i] an interval, first <= second);
\* a strategy that throws leaves no arrays.
BatchSearch ==
  /\ Built
  /\ call.op = "none"
  /\ \E query_method \in Methods, lo \in QueryVals, hi \in QueryVals,
        k \in 1..MaxK, ratio \in Ratios, d \in [0..(n - 1) -> Dists] :
       /\ lo <= hi
       /\ \E out \in StrategyResults(query_method, lo, hi, k, ratio, d) :
            call' = [op |-> "batch_search", query_method |-> query_method,
                     lo |-> lo, hi |-> hi, k |-> k, ratio |-> ratio, d |-> d,
                     out |-> out,
                     ids |-> IF out.error THEN <<>> ELSE RowIds(out.result, k),
                     dists |-> IF out.error THEN <<>> ELSE RowDists(out.result, k)]
  /\ UNCHANGED <<n, cutoff, filter_values, sorted_index_to_original_point_id,
                 bucket_sizes, starts, current_filter_size>>

Next == BuildLevel \/ FirstGreaterThan \/ FirstGreaterThanOrEqualTo \/ BatchSearch

Spec == Init /\ [][Next]_vars

SpecBuild == Init /\ [][BuildLevel]_vars

\* ------------------------------------- the level loop of fenwick_tree_search
\* The level loop reads only n, the bucket sizes and the window, so here the
\* index is one whose input came already in filter order: the sort leaves it
\* alone and the decoding is the identity.
InitPlan ==
  /\ n \in 1..PlanMaxN
  /\ cutoff \in 1..MaxCutoff
  /\ filter_values \in {f \in [0..(n - 1) -> FilterVals] :
                          \A i \in 0..(n - 2) : f[i] <= f[i + 1]}
  /\ sorted_index_to_original_point_id = [i \in 0..(n - 1) |-> i]
  /\ bucket_sizes = <<>>
  /\ starts = <<>>
  /\ current_filter_size = cutoff
  /\ call = [op |-> "none"]

\* Entry of the level loop for a window [inclusive_start, exclusive_end):
\* last_range = {0, 0}, indices_to_search empty, bucket_size_index at the
\* largest level (-1 when there is no level).
FenwickLevelLoopEnter ==
  /\ Built
  /\ call.op = "none"
  /\ \E inclusive_start \in 0..n, exclusive_end \in 0..n :
       /\ inclusive_start <= exclusive_end
       /\ call' = [op |-> "fenwick_levels",
                   inclusive_start |-> inclusive_start,
                   exclusive_end |-> exclusive_end,
                   bucket_size_index |-> NumLevels - 1,
                   indices_to_search |-> <<>>,
                   last_range |-> <<0, 0>>]
  /\ UNCHANGED <<n, cutoff, filter_values, sorted_index_to_original_point_id,
                 bucket_sizes, starts, current_filter_size>>

\* One iteration of the level loop, then bucket_size_index--.
FenwickLevelStep ==
  /\ call.op = "fenwick_levels"
  /\ call.bucket_size_index >= 0
  /\ LET after == FenwickLevelBody(call.bucket_size_index, call.inclusive_start,
                                   call.exclusive_end, call.indices_to_search,
                                   call.last_range)
     IN call' = [call EXCEPT !.bucket_size_index = @ - 1,
                             !.indices_to_search = after.indices_to_search,
                             !.last_range = after.last_range]
  /\ UNCHANGED <<n, cutoff, filter_values, sorted_index_to_original_point_id,
                 bucket_sizes, starts, current_filter_size>>

NextPlan == BuildLevel \/ FenwickLevelLoopEnter \/ FenwickLevelStep

SpecPlan == InitPlan /\ [][NextPlan]_vars

\* ------------------------------------------------ what the claims refer to
\* smallest index i with filter_values[i] > x, else n
LeastAbove(x) ==
  LET S == {i \in 0..(n - 1) : filter_values[i] > x}
  IN IF S = {} THEN n ELSE CHOOSE i \in S : \A o \in S : i <= o

\* smallest index i with filter_values[i] >= x, else n
LeastAtOrAbove(x) ==
  LET S == {i \in 0..(n - 1) : filter_values[i] >= x}
  IN IF S = {} THEN n ELSE CHOOSE i \in S : \A o \in S : i <= o

\* the sorted positions of the half-open window [from, to)
Window(from, to) == {p \in 0..(n - 1) : from <= p /\ p < to}

RECURSIVE Pow2(_)
Pow2(j) == IF j = 0 THEN 1 ELSE 2 * Pow2(j - 1)

Searched == call.op = "batch_search"

\* ----------------------------------------------------------------- claims
\* C1: first_greater_than(x) returns the smallest index whose filter value
\* is above x (n if none) and first_greater_than_or_equal_to(x) the smallest
\* index whose filter value is at least x (n if none).
C1_BoundarySearches ==
  /\ call.op = "first_greater_than" => call.ret = LeastAbove(call.x)
  /\ call.op = "first_greater_than_or_equal_to" => call.ret = LeastAtOrAbove(call.x)

\* C2: under each strategy every returned sorted id lies in the eligible
\* window [first_gt(lo), first_ge(hi)) of the query.
C2_ResultsInsideWindow ==
  (Searched /\ ~call.out.error) =>
    \A i \in 1..Len(call.out.result) :
      call.out.result[i][1] \in Window(LeastAbove(call.lo), LeastAtOrAbove(call.hi))

\* every SubIndex of the fenwick plan returned its min(k, bucket size)
\* nearest in-range points
ExactAnswers ==
  \A i \in 1..Len(call.out.indices_to_search) :
    LET key == call.out.indices_to_search[i]
        inrange == InRangeOfBucket(key[1], key[2], call.lo, call.hi)
        got == {call.out.answers[i][x][1] : x \in 1..Len(call.out.answers[i])}
    IN /\ Len(call.out.answers[i]) = Min(call.k, Cardinality(BucketPositions(key[1], key[2])))
       /\ \A x \in got : \A y \in inrange \ got : call.d[x] <= call.d[y]

\* C3: fenwick_tree with exact SubIndexes returns exactly
\* min(k, |eligible window|) pairs.
C3_FenwickCardinality ==
  (Searched /\ call.query_method = "fenwick_tree"
     /\ (~call.out.empty => ExactAnswers)) =>
    Len(call.out.result) =
      Min(call.k, Cardinality(Window(LeastAbove(call.lo), LeastAtOrAbove(call.hi))))

\* how often the fenwick plan and its residue reach sorted position p
TimesCovered(p) ==
  Cardinality({i \in 1..Len(call.out.indices_to_search) :
                 p \in BucketPositions(call.out.indices_to_search[i][1],
                                       call.out.indices_to_search[i][2])})
  + Cardinality({i \in 1..Len(call.out.residue) : call.out.residue[i][1] = p})

\* C4: the planned bucket spans of fenwick_tree and the brute-forced residue
\* partition the window: every position of the window is reached once and no
\* other position at all.
C4_FenwickPartition ==
  (Searched /\ call.query_method = "fenwick_tree" /\ ~call.out.empty
     /\ call.out.inclusive_start <= call.out.exclusive_end) =>
    \A p \in 0..(n - 1) :
      TimesCovered(p) =
        IF p \in Window(call.out.inclusive_start, call.out.exclusive_end) THEN 1 ELSE 0

\* C5: a merging strategy returns its pairs by ascending distance, pairs of
\* equal distance by ascending id.
C5_MergedOrder ==
  (Searched /\ call.query_method \in {"fenwick_tree", "three_split"}
     /\ ~call.out.error) =>
    \A i, j \in 1..Len(call.out.result) :
      i < j =>
        \/ call.out.result[i][2] < call.out.result[j][2]
        \/ /\ call.out.result[i][2] = call.out.result[j][2]
           /\ call.out.result[i][1] <= call.out.result[j][1]

\* C6 as stated: the widths are cutoff * 2^j and the largest one satisfies
\* w_{m-1} >= 2n > w_{m-2}.
C6_LargestWidthAtLeast2n ==
  (Built /\ NumLevels >= 1) =>
    /\ \A j \in 0..(NumLevels - 1) : BucketSize(j) = cutoff * Pow2(j)
    /\ BucketSize(NumLevels - 1) >= 2 * n
    /\ NumLevels >= 2 => 2 * n > BucketSize(NumLevels - 2)

\* C6 amended: the widths are cutoff * 2^j, the levels are exactly the
\* widths below 2n, so the largest one satisfies n <= w_{m-1} < 2n, and
\* there is no level at all when cutoff >= 2n.
C6_PyramidShape ==
  Built =>
    /\ \A j \in 0..(NumLevels - 1) :
         BucketSize(j) = cutoff * Pow2(j) /\ BucketSize(j) < 2 * n
    /\ NumLevels >= 1 => BucketSize(NumLevels - 1) >= n
    /\ NumLevels = 0 <=> cutoff >= 2 * n

\* C6, reached: a finished pyramid of three levels (widths 1, 2, 4 over 3 points).
C6_Witness == Built /\ NumLevels = 3 /\ n = 3 /\ cutoff = 1

\* the query range misses [filter_values[0], filter_values[n-1]]
OutsideIndexRange == call.hi < filter_values[0] \/ call.lo > filter_values[n - 1]

\* what batch_search writes with the padding distance pad
RowsFilled(pad) ==
  /\ Len(call.ids) = call.k /\ Len(call.dists) = call.k
  /\ \A j1 \in 1..call.k :
       IF j1 <= Len(call.out.result)
       THEN /\ call.ids[j1] = sorted_index_to_original_point_id[call.out.result[j1][1]]
            /\ call.dists[j1] = call.out.result[j1][2]
       ELSE call.ids[j1] = 0 /\ call.dists[j1] = pad
  /\ OutsideIndexRange =>
       \A j1 \in 1..call.k : call.ids[j1] = 0 /\ call.dists[j1] = pad

WindowIsBucket ==
  \E j \in 0..(NumLevels - 1) : \E b \in 0..(NumBuckets(j) - 1) :
    /\ call.out.inclusive_start = BucketStart(j, b)
    /\ call.out.exclusive_end = BucketEnd(j, b)

\* C8: three_split on a window that is a bucket span queries the center
\* SubIndex only: both spaces are 0 and no recursive call is made.
C8_AlignedWindowCenterOnly ==
  (Searched /\ call.query_method = "three_split" /\ WindowIsBucket) =>
    /\ call.out.index_to_search # <<>>
    /\ call.out.queried = call.out.index_to_search
    /\ call.out.left_space = 0 /\ call.out.right_space = 0
    /\ call.out.left = <<>> /\ call.out.right = <<>>

\* C9: the center span and the eligible windows of the two recursive
\* sub-queries together reach every position of the window.
C9_ThreeSplitCoverage ==
  (Searched /\ call.query_method = "three_split" /\ call.out.index_to_search # <<>>) =>
    \A p \in Window(call.out.inclusive_start, call.out.exclusive_end) :
      \/ call.out.middle_start <= p /\ p < call.out.middle_end
      \/ /\ call.out.left_space > 0
         /\ p \in Window(first_greater_than(call.lo),
                         first_greater_than_or_equal_to(filter_values[call.out.middle_start]))
      \/ /\ call.out.right_space > 0
         /\ p \in Window(first_greater_than(filter_values[call.out.middle_end]),
                         first_greater_than_or_equal_to(call.hi))

\* the window lies in one bucket of level j
InOneBucket(j) ==
  call.out.inclusive_start \div BucketSize(j) = (call.out.exclusive_end - 1) \div BucketSize(j)

\* C10: optimized_postfilter, past the empty-range check and the
\* small-window test, finds a level; the recorded bucket is of the smallest
\* level holding the window in one bucket, exists, spans the whole window,
\* and is the only SubIndex queried unless the ratio test falls back.
C10_ContainingBucket ==
  (Searched /\ call.query_method = "optimized_postfilter"
     /\ ~call.out.empty /\ ~call.out.small) =>
    /\ call.out.found
    /\ LET j == call.out.index_key[1]
           b == call.out.index_key[2]
       IN /\ j < NumLevels /\ b < NumBuckets(j)
          /\ InOneBucket(j)
          /\ \A i \in 0..(j - 1) : ~InOneBucket(i)
          /\ Window(call.out.inclusive_start, call.out.exclusive_end)
               \subseteq BucketPositions(j, b)
          /\ ~call.out.ratio_fallback => call.out.queried = <<call.out.index_key>>

\* the level loop is being followed and has run its last iteration
LevelLoopDone == call.op = "fenwick_levels" /\ call.bucket_size_index = -1

\* the positions pushed by the brute-force loops after the level loop
BruteForced ==
  FenwickResidue(call.inclusive_start, call.exclusive_end, call.last_range,
                 [i \in 0..(n - 1) |-> 0])

\* C11: for every window 0 <= inclusive_start <= exclusive_end <= n, after
\* level j has been processed with a seed bucket found, the left residue
\* [inclusive_start, C_lo) and the right residue [C_hi, exclusive_end) hold at
\* most w_j positions each; when the loop has finished they hold at most
\* cutoff positions each, a window without seed has fewer than 2 * cutoff
\* positions, and at most 2 * cutoff positions are brute-forced.  The
\* finished loop is the plan fenwick_tree_search works from.
C11_BruteForceBound ==
  call.op = "fenwick_levels" =>
    LET j == call.bucket_size_index + 1
        left == Window(call.inclusive_start, call.last_range[1])
        right == Window(call.last_range[2], call.exclusive_end)
    IN /\ (j < NumLevels /\ call.last_range # <<0, 0>>) =>
            /\ Cardinality(left) <= BucketSize(j)
            /\ Cardinality(right) <= BucketSize(j)
       /\ LevelLoopDone =>
            /\ [indices_to_search |-> call.indices_to_search,
                last_range |-> call.last_range]
                 = FenwickPlan(call.inclusive_start, call.exclusive_end)
            /\ call.last_range # <<0, 0>> =>
                 Cardinality(left) <= cutoff /\ Cardinality(right) <= cutoff
            /\ call.last_range = <<0, 0>> =>
                 call.exclusive_end - call.inclusive_start < 2 * cutoff
            /\ Len(BruteForced) <= 2 * cutoff

\* C11, reached: a finished loop that seeded, took buckets from two levels
\* and leaves a left residue of exactly cutoff positions.
C11_Witness ==
  /\ LevelLoopDone
  /\ call.last_range # <<0, 0>>
  /\ \E a, b \in 1..Len(call.indices_to_search) :
       call.indices_to_search[a][1] # call.indices_to_search[b][1]
  /\ call.last_range[1] - call.inclusive_start = cutoff
====
